---- MODULE Spec2Model ----
(***************************************************************************)
(* A model of compone's component object model (core/compone/component.py):*)
(* the property bag and its copy-style operators, the context-local        *)
(* parent-tracking slot used by `with` blocks, the children container,     *)
(* lazy binding, and the escape/render pipeline.                           *)
(*                                                                         *)
(* Python values are tagged records [k |-> kind, v |-> payload]; the       *)
(* payload is always a sequence.  Text is a sequence of one-character      *)
(* strings.  A dict is a sequence of <<key, value>> pairs with distinct    *)
(* keys, in insertion order.  Component instances live in the sequence     *)
(* `insts` and are named by their index; list objects live in `heap`.      *)
(***************************************************************************)
EXTENDS Integers, Sequences, FiniteSets, TLC

VARIABLES
    insts,      \* the component instances constructed so far
    heap,       \* list objects: heap[i] is the list made by instance i's
                \* __init__, heap[CallerList] is a list owned by the caller
    slot,       \* last_parent, one value per execution context
    blocks,     \* per context, the `with` blocks that are open (innermost last)
    solo,       \* per context, last_parent as a run of that context alone sets it
    last        \* the last operation: what was called and how it ended

vars == <<insts, heap, slot, blocks, solo, last>>

----------------------------------------------------------------------------
(* Bounds of the model *)

MaxInst == 3
MaxScoped == 2
MaxDepth == 2
MaxChildren == 2
MaxTimes == 2
MaxNest == 3

(* The execution contexts (threads / tasks) and the frame identities that  *)
(* id(inspect.currentframe().f_back) can yield.                            *)
Ctx == {"t1", "t2"}
MainCtx == {"t1"}
Frames == {"f", "g"}

----------------------------------------------------------------------------
(* Python values *)

NoneVal == [k |-> "none", v |-> <<>>]
Str(s) == [k |-> "str", v |-> s]
Safe(s) == [k |-> "safe", v |-> s]
Num(n) == [k |-> "int", v |-> <<n>>]
PyBool(b) == [k |-> "bool", v |-> <<b>>]
Tuple(items) == [k |-> "tuple", v |-> items]
ListRef(r) == [k |-> "list", v |-> <<r>>]
Comp(i) == [k |-> "comp", v |-> <<i>>]
Iter(r) == [k |-> "iter", v |-> <<r>>]

CallerList == 0

(* A one-shot iterator made by the caller, iter(["a"]): heap[CallerIter]   *)
(* holds the items it has still to yield                                   *)
CallerIter == 0 - 1
IterItems == <<Str(<<"a">>)>>

(* A frame id or a parent that is None *)
NoFrame == "None"
NoParent == 0
SlotDefault == [fid |-> NoFrame, parent |-> NoParent]

RECURSIVE Concat(_)
Concat(ss) == IF ss = <<>> THEN <<>> ELSE Head(ss) \o Concat(Tail(ss))

----------------------------------------------------------------------------
(* dict: a sequence of <<key, value>> pairs, distinct keys, insertion order *)

DictKeys(d) == {d[n][1] : n \in 1..Len(d)}
DictHas(d, key) == key \in DictKeys(d)
DictGet(d, key) == d[CHOOSE n \in 1..Len(d) : d[n][1] = key][2]
DictSet(d, key, val) ==
    IF DictHas(d, key)
    THEN [n \in 1..Len(d) |-> IF d[n][1] = key THEN <<key, val>> ELSE d[n]]
    ELSE Append(d, <<key, val>>)

RECURSIVE DictUpdate(_, _)
DictUpdate(d, e) ==
    IF e = <<>> THEN d
    ELSE DictUpdate(DictSet(d, Head(e)[1], Head(e)[2]), Tail(e))

(* Equality of dicts as Python's == has it: same keys, same values, the    *)
(* order not compared.                                                     *)
DictEq(d, e) ==
    /\ DictKeys(d) = DictKeys(e)
    /\ \A key \in DictKeys(d) : DictGet(d, key) = DictGet(e, key)

(* Keyword names are texts, so that key[:-1] can be taken *)
K_id == <<"i", "d">>
K_hidden == <<"h", "i", "d", "d", "e", "n">>
K_class == <<"c", "l", "a", "s", "s">>
K_class_ == <<"c", "l", "a", "s", "s", "_">>
K_for == <<"f", "o", "r">>
K_form == <<"f", "o", "r", "m">>
K_for_ == <<"f", "o", "r", "_">>
K_level == <<"l", "e", "v", "e", "l">>
K_children == <<"c", "h", "i", "l", "d", "r", "e", "n">>

(* keyword.iskeyword, on the names the model uses *)
IsKeyword(name) == name \in {K_class, K_for}

(* key[:-1] *)
DropLast(key) == IF key = <<>> THEN <<>> ELSE SubSeq(key, 1, Len(key) - 1)

----------------------------------------------------------------------------
(* The component classes: html.Div (_Elem), html.Hr (_SelfElem), and two   *)
(* function components made by Component(): WithChildren (keyword-only children) of   *)
(* the tests and H(level, children) of the examples.  "Multi" stands for   *)
(* the classes __mul__ makes, one per product: Component(lambda: ...); the *)
(* instance and the number the lambda closes over are the field func of    *)
(* the instance.                                                           *)

Classes == {"Div", "Hr", "WithChildren", "H", "Multi"}
IsHTML(cls) == cls \in {"Div", "Hr"}
HasChildren(cls) == cls # "Hr"
HtmlTag(cls) == IF cls = "Div" THEN <<"d", "i", "v">> ELSE <<"h", "r">>

(* _make_func_component: _argnames, _defaults, _pass_children *)
Argnames(cls) == IF cls = "H" THEN <<K_level, K_children>> ELSE <<>>
Defaults(cls) == <<>>
PassChildren(cls) == cls = "WithChildren"

(* A result of a call: a value, or the exception it raised *)
Ok(val) == [ok |-> TRUE, val |-> val, exc |-> "none", info |-> <<>>]
RaiseWith(exc, info) == [ok |-> FALSE, val |-> NoneVal, exc |-> exc, info |-> info]
Raise(exc) == RaiseWith(exc, <<>>)

(* _HTMLComponentBase._convert_kwargs: (new_kwargs, keyval_args, bool_args) *)
IsStr(val) == val.k \in {"str", "safe"}
BothQuotes(val) ==
    /\ IsStr(val)
    /\ \E n \in 1..Len(val.v) : val.v[n] = "\""
    /\ \E n \in 1..Len(val.v) : val.v[n] = "'"

RECURSIVE ConvertLoop(_, _)
ConvertLoop(kwargs, acc) ==
    IF kwargs = <<>> THEN Ok(acc)
    ELSE LET key == Head(kwargs)[1]
             val == Head(kwargs)[2]
             no_underscore == DropLast(key)
         IN  IF BothQuotes(val) THEN Raise("ValueError")
             ELSE IF IsKeyword(no_underscore)
             THEN ConvertLoop(Tail(kwargs),
                    [acc EXCEPT !.new_kwargs = DictSet(@, no_underscore, val),
                                !.keyval_args = DictSet(@, no_underscore, val)])
             ELSE IF val.k = "bool"
             THEN IF val.v[1]
                  THEN ConvertLoop(Tail(kwargs),
                         [acc EXCEPT !.bool_args = Append(@, key)])
                  ELSE ConvertLoop(Tail(kwargs), acc)
             ELSE ConvertLoop(Tail(kwargs),
                    [acc EXCEPT !.new_kwargs = DictSet(@, key, val),
                                !.keyval_args = DictSet(@, key, val)])

ConvertKwargs(kwargs) ==
    ConvertLoop(kwargs, [new_kwargs |-> <<>>, keyval_args |-> <<>>, bool_args |-> <<>>])

(* _ComponentBase.__init__: the props of a call of cls with args, kwargs *)
RECURSIVE ZipArgs(_, _, _)
ZipArgs(props, names, args) ==
    IF names = <<>> \/ args = <<>> THEN props
    ELSE ZipArgs(DictSet(props, Head(names), Head(args)), Tail(names), Tail(args))

BaseInit(cls, args, kwargs) ==
    DictUpdate(ZipArgs(Defaults(cls), Argnames(cls), args), kwargs)

(* The instance a call of cls builds, as instance number i made in         *)
(* context c; its own list is heap[i].  _ChildrenMixin.__init__ gives it   *)
(* an empty list, _LazyComponent.__init__ the flag False; a self-closing   *)
(* element has neither.  _parent and _parent_frame_id do not exist until   *)
(* the first __enter__ (entered = FALSE).  owner is the context that made *)
(* the instance and origin the instance it was derived from, if any.       *)
NoFunc == [of |-> NoParent, times |-> 0]

NewInst(cls, props, keyval_args, bool_args, i, c) ==
    [cls |-> cls, props |-> props,
     keyval_args |-> keyval_args, bool_args |-> bool_args,
     children |-> IF HasChildren(cls) THEN ListRef(i) ELSE NoneVal,
     lazy |-> FALSE,
     entered |-> FALSE, parent |-> NoParent, parent_frame_id |-> NoFrame,
     func |-> NoFunc,
     owner |-> c, origin |-> NoParent]

(* cls.__init__ through the MRO: a result holding the new instance *)
Init_(cls, args, kwargs, i, c) ==
    IF IsHTML(cls)
    THEN IF args # <<>> THEN Raise("TypeError")
         ELSE LET conv == ConvertKwargs(kwargs)
              IN  IF ~conv.ok THEN conv
                  ELSE Ok(NewInst(cls, BaseInit(cls, <<>>, conv.val.new_kwargs),
                                  conv.val.keyval_args, conv.val.bool_args, i, c))
    ELSE Ok(NewInst(cls, BaseInit(cls, args, kwargs), <<>>, <<>>, i, c))


----------------------------------------------------------------------------
(* The children container and the escaping collaborators *)

(* The items a container holds, read through the heap *)
Items(val, hp) ==
    IF val.k \in {"list", "iter"} THEN hp[val.v[1]]
    ELSE IF val.k = "tuple" THEN val.v
    ELSE <<>>

(* bool(val): Python truth of a value *)
Truthy(val, hp) ==
    CASE val.k = "list" -> hp[val.v[1]] # <<>>
      [] val.k \in {"tuple", "str", "safe"} -> val.v # <<>>
      [] val.k = "int" -> val.v[1] # 0
      [] val.k = "bool" -> val.v[1]
      [] val.k = "none" -> FALSE
      [] OTHER -> TRUE

(* utils._is_iterable *)
IsIterable(val) == val.k \in {"list", "tuple", "str", "safe", "comp", "iter"}

(* escape of one character *)
EscapeChar(ch) ==
    CASE ch = "<" -> <<"&", "l", "t", ";">>
      [] ch = ">" -> <<"&", "g", "t", ";">>
      [] ch = "&" -> <<"&", "a", "m", "p", ";">>
      [] ch = "\"" -> <<"&", "#", "3", "4", ";">>
      [] ch = "'" -> <<"&", "#", "3", "9", ";">>
      [] OTHER -> <<ch>>

EscapeText(s) == Concat([n \in 1..Len(s) |-> EscapeChar(s[n])])

(* str(n) for the small numbers of the model *)
Digit(n) == CASE n = 0 -> "0" [] n = 1 -> "1" [] n = 2 -> "2" [] OTHER -> "9"

(* str(val) of a value that is neither text, a component nor a sequence *)
Repr(val) ==
    CASE val.k = "int" -> <<Digit(val.v[1])>>
      [] val.k = "bool" -> IF val.v[1] THEN <<"T", "r", "u", "e">>
                           ELSE <<"F", "a", "l", "s", "e">>
      [] OTHER -> <<"N", "o", "n", "e">>

(* str.replace("_", "-") *)
Hyphens(s) == [n \in 1..Len(s) |-> IF s[n] = "_" THEN "-" ELSE s[n]]

(* escape(val) of a scalar: a SafeString passes, text is escaped, any      *)
(* other value is escaped through its text representation                  *)
EscapeScalar(val) ==
    IF val.k = "safe" THEN val.v
    ELSE IF val.k = "str" THEN EscapeText(val.v)
    ELSE EscapeText(Repr(val))

(* safe * n: the text n times over, a SafeString again; no text for n < 1 *)
RECURSIVE Repeat(_, _)
Repeat(text, n) == IF n < 1 THEN <<>> ELSE text \o Repeat(text, n - 1)

(* _HTMLComponentBase._get_attributes *)
RECURSIVE JoinBool(_)
JoinBool(names) ==
    IF names = <<>> THEN <<>>
    ELSE <<" ">> \o EscapeText(Hyphens(Head(names))) \o JoinBool(Tail(names))

RECURSIVE JoinKeyval(_)
JoinKeyval(kv) ==
    IF kv = <<>> THEN <<>>
    ELSE LET k == Head(kv)[1]
             v == Head(kv)[2]
             html_key == EscapeText(Hyphens(k))
             html_val == EscapeScalar(v)
             q == IF \E n \in 1..Len(html_val) : html_val[n] = "\""
                  THEN "'" ELSE "\""
         IN  (IF v.k = "none" THEN <<>>
              ELSE <<" ">> \o html_key \o <<"=", q>> \o html_val \o <<q>>)
             \o JoinKeyval(Tail(kv))

GetAttributes(self) == JoinBool(self.bool_args) \o JoinKeyval(self.keyval_args)

(* _HTMLComponent._render and _SelfClosingHTMLComponent.__str__ *)
HtmlRender(self, children) ==
    <<"<">> \o HtmlTag(self.cls) \o GetAttributes(self) \o <<">">>
    \o children \o <<"<", "/">> \o HtmlTag(self.cls) \o <<">">>

SelfClosingStr(self) ==
    <<"<">> \o HtmlTag(self.cls) \o GetAttributes(self) \o <<" ", "/", ">">>

(* _FuncComponent._get_content followed by _ContentMixin._render.          *)
(* WithChildren returns html.Div[children], a SafeString; H returns the    *)
(* plain text <hN>children</hN>, which _render escapes.                    *)
FuncRender(self, children) ==
    IF \E n \in 1..Len(Argnames(self.cls)) :
           ~DictHas(self.props, Argnames(self.cls)[n])
    THEN Raise("KeyError")
    ELSE IF self.cls = "WithChildren"
    THEN IF self.props # <<>> THEN Raise("TypeError")
         ELSE Ok(<<"<", "d", "i", "v", ">">> \o children
                 \o <<"<", "/", "d", "i", "v", ">">>)
    ELSE IF DictKeys(self.props) # {K_level, K_children} THEN Raise("TypeError")
    ELSE LET elem == <<"h">> \o Repr(DictGet(self.props, K_level))
             body == LET ch == DictGet(self.props, K_children)
                     IN  IF IsStr(ch) THEN ch.v ELSE Repr(ch)
         IN  Ok(EscapeText(<<"<">> \o elem \o <<">">> \o body
                           \o <<"<", "/">> \o elem \o <<">">>))

(* self._render(children) for a children-capable instance *)
RenderOwn(self, children) ==
    IF IsHTML(self.cls) THEN Ok(HtmlRender(self, children))
    ELSE FuncRender(self, children)

(* The text units a children value yields when _escape iterates it: the    *)
(* items of a list or tuple, the characters of a text.                     *)
Units(val, hp) ==
    IF IsStr(val) THEN [n \in 1..Len(val.v) |-> Str(<<val.v[n]>>)]
    ELSE Items(val, hp)

(* Python's recursion limit, scaled to the model: an acyclic nesting of    *)
(* the model's instances is never this deep.                               *)
RecursionLimit == 2 * MaxInst + 2

(* __str__, __render and _escape.  Render(i, ...) is str() of instance i,  *)
(* RenderWith(i, children, ...) is instance i's __render(children), and    *)
(* EscapeAll(units, ...) joins what _escape makes of the units.  Rendering *)
(* a component that contains itself ends in RecursionError; iterating a    *)
(* non-lazy component as a children sequence never ends, as its            *)
(* __getitem__ renders for every index ("Diverges").                       *)
RECURSIVE Render(_, _, _, _), RenderWith(_, _, _, _, _), EscapeAll(_, _, _, _),
          EscapeOne(_, _, _, _), EscapeValue(_, _, _, _), Content(_, _, _, _, _)
Render(i, ins, hp, depth) ==
    IF depth = 0 THEN Raise("RecursionError")
    ELSE IF ~HasChildren(ins[i].cls) THEN Ok(SelfClosingStr(ins[i]))
    ELSE RenderWith(i, ins[i].children, ins, hp, depth)

RenderWith(i, children, ins, hp, depth) ==
    IF ~Truthy(children, hp) THEN Content(i, <<>>, ins, hp, depth)
    ELSE IF children.k = "comp" THEN Raise("Diverges")
    ELSE IF ~IsIterable(children) THEN Raise("TypeError")
    ELSE LET escaped == EscapeAll(Units(children, hp), ins, hp, depth)
         IN  IF ~escaped.ok THEN escaped ELSE Content(i, escaped.val, ins, hp, depth)

(* self._render(children): for a product the content is the lambda's       *)
(* safe(self) * other, a SafeString that _render returns as it is          *)
Content(i, children, ins, hp, depth) ==
    IF ins[i].cls # "Multi" THEN RenderOwn(ins[i], children)
    ELSE IF ins[i].props # <<>> THEN Raise("TypeError")
    ELSE LET text == Render(ins[i].func.of, ins, hp, depth - 1)
         IN  IF ~text.ok THEN text ELSE Ok(Repeat(text.val, ins[i].func.times))

EscapeAll(units, ins, hp, depth) ==
    IF units = <<>> THEN Ok(<<>>)
    ELSE LET first == EscapeOne(Head(units), ins, hp, depth)
         IN  IF ~first.ok THEN first
             ELSE LET rest == EscapeAll(Tail(units), ins, hp, depth)
                  IN  IF ~rest.ok THEN rest ELSE Ok(first.val \o rest.val)

(* One unit in _escape: a component renders (safe(ch)), any other value   *)
(* goes to escape.                                                         *)
EscapeOne(ch, ins, hp, depth) ==
    IF depth = 0 THEN Raise("RecursionError")
    ELSE IF ch.k = "comp" THEN Render(ch.v[1], ins, hp, depth - 1)
    ELSE EscapeValue(ch, ins, hp, depth - 1)

(* escape(val): a sequence is flattened, each element handled as a unit;   *)
(* a scalar is escaped.                                                    *)
EscapeValue(val, ins, hp, depth) ==
    IF val.k \in {"list", "tuple"} THEN EscapeAll(Items(val, hp), ins, hp, depth)
    ELSE Ok(EscapeScalar(val))

(* _ChildrenMixin.__getitem__: the content normalised to a sequence, then  *)
(* rendered; nothing is stored.                                            *)
Normalise(content) ==
    IF IsIterable(content)
    THEN IF content.k \in {"str", "safe", "comp"} THEN Tuple(<<content>>) ELSE content
    ELSE Tuple(<<content>>)

GetItemRender(i, content, ins, hp) ==
    RenderWith(i, Normalise(content), ins, hp, RecursionLimit)

(* for ch in children, when children or the children of a component below *)
(* is the caller's iterator: the loop takes every item out of it.          *)
(* Drains(children, ...) tells whether rendering with these children gets  *)
(* as far as that loop; an exception raised by an earlier unit stops it.   *)
RECURSIVE Drains(_, _, _, _), DrainsAny(_, _, _, _)
Drains(children, ins, hp, depth) ==
    IF depth = 0 \/ ~Truthy(children, hp) THEN FALSE
    ELSE IF children.k = "iter" THEN TRUE
    ELSE IF children.k \in {"list", "tuple"}
    THEN DrainsAny(Items(children, hp), ins, hp, depth)
    ELSE FALSE

DrainsAny(units, ins, hp, depth) ==
    IF units = <<>> THEN FALSE
    ELSE LET ch == Head(units)
         IN  IF ch.k = "comp" /\ HasChildren(ins[ch.v[1]].cls)
                /\ Drains(ins[ch.v[1]].children, ins, hp, depth - 1)
             THEN TRUE
             ELSE IF ~EscapeOne(ch, ins, hp, depth).ok THEN FALSE
             ELSE DrainsAny(Tail(units), ins, hp, depth)

(* The heap after rendering with these children *)
Drained(children, ins, hp) ==
    IF Drains(children, ins, hp, RecursionLimit)
    THEN [hp EXCEPT ![CallerIter] = <<>>] ELSE hp


----------------------------------------------------------------------------
(* The copy-style operators of the property bag *)

(* _ComponentBase._merge: self.__class__ called with the deep-copied props *)
(* overlaid with kwargs                                                    *)
Merge_(self, kwargs, i, c) ==
    LET new == Init_(self.cls, <<>>, DictUpdate(self.props, kwargs), i, c)
    IN  IF new.ok THEN Ok([new.val EXCEPT !.func = self.func]) ELSE new

(* The kwargs the base operator gets: _HTMLComponentBase converts them *)
Converted(self, kwargs) ==
    IF IsHTML(self.cls)
    THEN LET conv == ConvertKwargs(kwargs)
         IN  IF conv.ok THEN Ok(conv.val.new_kwargs) ELSE conv
    ELSE Ok(kwargs)

(* replace *)
ReplaceResult(self, kwargs, i, c) ==
    LET conv == Converted(self, kwargs)
    IN  IF ~conv.ok THEN conv ELSE Merge_(self, conv.val, i, c)

(* old + new of two values: texts are joined, numbers (booleans among     *)
(* them) are added, any other pair raises TypeError                        *)
Plus(a, b) ==
    IF IsStr(a) /\ IsStr(b) THEN Ok([k |-> a.k, v |-> a.v \o b.v])
    ELSE IF a.k \in {"int", "bool"} /\ b.k \in {"int", "bool"}
    THEN LET n(x) == IF x.k = "int" THEN x.v[1] ELSE IF x.v[1] THEN 1 ELSE 0
         IN  Ok(Num(n(a) + n(b)))
    ELSE Raise("TypeError")

(* append: the loop over kwargs building the dict `appended` *)
RECURSIVE AppendLoop(_, _, _)
AppendLoop(props, kwargs, appended) ==
    IF kwargs = <<>> THEN Ok(appended)
    ELSE LET key == Head(kwargs)[1]
             val == Head(kwargs)[2]
         IN  IF DictHas(props, key)
             THEN LET sum == Plus(DictGet(props, key), val)
                  IN  IF ~sum.ok THEN sum
                      ELSE AppendLoop(props, Tail(kwargs), DictSet(appended, key, sum.val))
             ELSE AppendLoop(props, Tail(kwargs), DictSet(appended, key, val))

AppendResult(self, kwargs, i, c) ==
    LET conv == Converted(self, kwargs)
    IN  IF ~conv.ok THEN conv
        ELSE LET appended == AppendLoop(self.props, conv.val, <<>>)
             IN  IF ~appended.ok THEN appended
                 ELSE Merge_(self, appended.val, i, c)

(* The number a product repeats one time only *)
TimesOne(other) == 1

(* The number the lambda of __mul__ multiplies by: other, where True is 1  *)
Times(other) == IF other.k = "int" THEN other.v[1] ELSE IF other.v[1] THEN 1 ELSE 0

(* isinstance(other, int) *)
IsInt(other) == other.k \in {"int", "bool"}

NotImplementedVal == [k |-> "notimplemented", v |-> <<>>]

(* __mul__ with an int: Multiple(), a function component without          *)
(* arguments whose function closes over self and other                     *)
MulResult(self_id, other, i, c) ==
    Ok([NewInst("Multi", <<>>, <<>>, <<>>, i, c)
            EXCEPT !.func = [of |-> self_id, times |-> Times(other)]])

(* merge: KeyError naming the overlapping keys, else _merge *)
Overlapping(self, kwargs) ==
    SelectSeq([n \in 1..Len(kwargs) |-> kwargs[n][1]],
              LAMBDA key : DictHas(self.props, key))

MergeResult(self, kwargs, i, c) ==
    LET conv == Converted(self, kwargs)
    IN  IF ~conv.ok THEN conv
        ELSE IF Overlapping(self, conv.val) # <<>>
        THEN RaiseWith("KeyError", Overlapping(self, conv.val))
        ELSE Merge_(self, conv.val, i, c)

(* A copy that keeps the receiver's container and flag *)
CopyShared(self, i, c) == Ok([self EXCEPT !.owner = c])

(* copy *)
CopyResult(self, i, c) == Merge_(self, <<>>, i, c)

(* the lazy accessor: a copy flagged lazy *)
LazyResult(self, i, c) ==
    LET new == CopyResult(self, i, c)
    IN  IF ~new.ok THEN new ELSE Ok([new.val EXCEPT !.lazy = TRUE])

----------------------------------------------------------------------------
(* The state machine *)

(* A pair that forgets the component: no block ever finds a parent *)
PairNoParent(fid, parent) == [fid |-> fid, parent |-> NoParent]

Pair(fid, parent) == [fid |-> fid, parent |-> parent]

(* ContextVar.get and ContextVar.set in context c *)
SlotGet(sl, c) == sl[c]

(* A module-level global in place of the ContextVar: one value for all *)
SlotSetGlobal(sl, c, pair) == [x \in Ctx |-> pair]

SlotSet(sl, c, pair) == [sl EXCEPT ![c] = pair]

Call(op, c, self, arg, res) ==
    [op |-> op, ctx |-> c, self |-> self, arg |-> arg, res |-> res]

Ids == 1..Len(insts)

(* The number of children attached, over all lists *)
RECURSIVE SumLen(_, _)
SumLen(hp, r) == IF r < 0 THEN 0 ELSE Len(hp[r]) + SumLen(hp, r - 1)
Attached(hp) == SumLen(hp, MaxInst)
Running == last.res.exc # "Diverges"

Init ==
    /\ insts = <<>>
    /\ heap = [r \in CallerIter..MaxInst |->
                  IF r = CallerIter THEN IterItems ELSE <<>>]
    /\ slot = [c \in Ctx |-> SlotDefault]
    /\ blocks = [c \in Ctx |-> <<>>]
    /\ solo = [slot |-> [c \in Ctx |-> SlotDefault],
               saved |-> [i \in 1..MaxInst |-> SlotDefault]]
    /\ last = Call("init", "t1", NoParent, <<>>, Ok(NoneVal))

(* An operator that returns a new instance: on success the instance is     *)
(* appended to insts, on an exception nothing is made.                     *)
Allocate(op, c, self, arg, res) ==
    /\ insts' = IF res.ok THEN Append(insts, [res.val EXCEPT !.origin = self])
                 ELSE insts
    /\ heap' = IF res.ok THEN [heap EXCEPT ![Len(insts) + 1] = <<>>] ELSE heap
    /\ last' = Call(op, c, self, arg,
                    IF res.ok THEN Ok(Comp(Len(insts) + 1)) ELSE res)
    /\ UNCHANGED <<slot, blocks, solo>>

Construct(c, cls, args, kwargs) ==
    /\ Running
    /\ Len(insts) < MaxInst
    /\ Allocate("construct", c, NoParent, <<cls, args, kwargs>>,
                Init_(cls, args, kwargs, Len(insts) + 1, c))

Replace(c, i, kwargs) ==
    /\ Running
    /\ Len(insts) < MaxInst
    /\ Allocate("replace", c, i, <<kwargs>>,
                ReplaceResult(insts[i], kwargs, Len(insts) + 1, c))

Append_(c, i, kwargs) ==
    /\ Running
    /\ Len(insts) < MaxInst
    /\ Allocate("append", c, i, <<kwargs>>,
                AppendResult(insts[i], kwargs, Len(insts) + 1, c))

(* _ComponentBase.__mul__ *)
Mul(c, i, other) ==
    /\ Running
    /\ IF ~IsInt(other)
       THEN /\ last' = Call("mul", c, i, <<other>>, Ok(NotImplementedVal))
            /\ UNCHANGED <<insts, heap, slot, blocks, solo>>
       ELSE /\ Len(insts) < MaxInst
            /\ Allocate("mul", c, i, <<other>>,
                        MulResult(i, other, Len(insts) + 1, c))

Merge(c, i, kwargs) ==
    /\ Running
    /\ Len(insts) < MaxInst
    /\ Allocate("merge", c, i, <<kwargs>>,
                MergeResult(insts[i], kwargs, Len(insts) + 1, c))

Copy(c, i) ==
    /\ Running
    /\ Len(insts) < MaxInst
    /\ Allocate("copy", c, i, <<>>, CopyResult(insts[i], Len(insts) + 1, c))

Lazy(c, i) ==
    /\ Running
    /\ Len(insts) < MaxInst
    /\ HasChildren(insts[i].cls)
    /\ Allocate("lazy", c, i, <<>>, LazyResult(insts[i], Len(insts) + 1, c))

(* A dispatch that forgets the flag: every instance stores what it is given *)
StoresAlways(self) == TRUE

(* if not self._lazy: return super().__getitem__(children) *)
Stores(self) == self.lazy

(* _LazyComponent.__getitem__ *)
GetItem(c, i, content) ==
    /\ Running
    /\ HasChildren(insts[i].cls)
    /\ IF ~Stores(insts[i])
       THEN /\ last' = Call("getitem", c, i, <<content>>,
                            LET r == GetItemRender(i, content, insts, heap)
                            IN  IF r.ok THEN Ok(Safe(r.val)) ELSE r)
            /\ heap' = Drained(Normalise(content), insts, heap)
            /\ UNCHANGED <<insts, slot, blocks, solo>>
       ELSE IF Truthy(insts[i].children, heap)
       THEN /\ last' = Call("getitem", c, i, <<content>>, Raise("ValueError"))
            /\ UNCHANGED <<insts, heap, slot, blocks, solo>>
       ELSE /\ insts' = [insts EXCEPT ![i].children = content]
            /\ last' = Call("getitem", c, i, <<content>>, Ok(Comp(i)))
            /\ UNCHANGED <<heap, slot, blocks, solo>>

(* _ChildrenMixin.__iadd__: self._children.append(other) *)
IAdd(c, i, other) ==
    /\ Running
    /\ HasChildren(insts[i].cls)
    /\ IF insts[i].children.k = "list"
       THEN LET r == insts[i].children.v[1]
            IN  /\ Len(heap[r]) < MaxChildren
                /\ heap' = [heap EXCEPT ![r] = Append(@, other)]
                /\ last' = Call("iadd", c, i, <<other>>, Ok(Comp(i)))
       ELSE /\ last' = Call("iadd", c, i, <<other>>, Raise("AttributeError"))
            /\ UNCHANGED heap
    /\ UNCHANGED <<insts, slot, blocks, solo>>

(* str(component): _ChildrenMixin.__str__, or the __str__ of a             *)
(* self-closing element                                                    *)
StrOf(c, i) ==
    /\ Running
    /\ last' = Call("str", c, i, <<>>, Render(i, insts, heap, RecursionLimit))
    /\ heap' = IF HasChildren(insts[i].cls)
               THEN Drained(insts[i].children, insts, heap) ELSE heap
    /\ UNCHANGED <<insts, slot, blocks, solo>>

(* _ChildrenMixin.__enter__, called from frame f in context c *)
EnterBlock(c, i, f) ==
    /\ Running
    /\ HasChildren(insts[i].cls)
    /\ insts' = [insts EXCEPT ![i].parent_frame_id = SlotGet(slot, c).fid,
                              ![i].parent = SlotGet(slot, c).parent,
                              ![i].entered = TRUE]
    /\ slot' = SlotSet(slot, c, Pair(f, i))
    /\ blocks' = [blocks EXCEPT ![c] =
                    Append(@, [inst |-> i, frame |-> f, before |-> SlotGet(slot, c)])]
    /\ solo' = [slot |-> [solo.slot EXCEPT ![c] = Pair(f, i)],
                saved |-> [solo.saved EXCEPT ![i] = solo.slot[c]]]
    /\ last' = Call("enter", c, i, <<f>>, Ok(Comp(i)))
    /\ UNCHANGED heap

(* __enter__ while fewer than MaxDepth blocks are open *)
Enter(c, i, f) ==
    /\ Len(blocks[c]) < MaxDepth
    /\ EnterBlock(c, i, f)

(* A test that forgets the frame: any saved parent gets the child *)
AttachAnyFrame(self, current_frame_id) == self.parent # NoParent

(* The test of __exit__: a saved parent, and the caller's frame the one    *)
(* saved with it                                                           *)
Attach(self, current_frame_id) ==
    self.parent # NoParent /\ current_frame_id = self.parent_frame_id

(* _ChildrenMixin.__exit__ of the innermost open block of context c.  A    *)
(* with statement calls __exit__ from the frame it called __enter__ from;  *)
(* exc tells whether an exception is propagating through the block, which  *)
(* __exit__ does not look at.  When the append raises, the slot is not set.*)
Exit(c, exc) ==
    /\ Running
    /\ blocks[c] # <<>>
    /\ LET i == blocks[c][Len(blocks[c])].inst
           f == blocks[c][Len(blocks[c])].frame
           self == insts[i]
           attach == Attach(self, f)
           target == insts[self.parent].children
           raises == attach /\ target.k # "list"
       IN  /\ IF attach /\ ~raises
              THEN /\ Attached(heap) < MaxChildren
                   /\ heap' = [heap EXCEPT ![target.v[1]] = Append(@, Comp(i))]
              ELSE UNCHANGED heap
           /\ slot' = IF raises THEN slot
                      ELSE SlotSet(slot, c, Pair(self.parent_frame_id, self.parent))
           /\ solo' = IF raises THEN solo
                      ELSE [solo EXCEPT !.slot[c] = solo.saved[i]]
           /\ last' = Call("exit", c, i, <<f>>,
                           IF raises THEN Raise("AttributeError") ELSE Ok(NoneVal))
    /\ blocks' = [blocks EXCEPT ![c] = SubSeq(@, 1, Len(@) - 1)]
    /\ UNCHANGED insts

----------------------------------------------------------------------------
(* The inputs the operations are driven with *)

TextA == <<"a">>
TextB == <<"b">>

(* Constructor calls <<class, args, kwargs>> *)
Constructions ==
    { <<"Div", <<>>, <<>>>>,
      <<"Div", <<>>, << <<K_id, Str(TextA)>> >> >>,
      <<"Div", <<>>, << <<K_hidden, PyBool(TRUE)>> >> >>,
      <<"Div", <<>>, << <<K_hidden, PyBool(FALSE)>> >> >>,
      <<"Div", <<>>, << <<K_class_, Str(TextA)>> >> >>,
      <<"Div", <<>>, << <<K_form, Str(TextA)>> >> >>,
      <<"Div", <<>>, << <<K_for_, PyBool(TRUE)>> >> >>,
      <<"Hr", <<>>, <<>>>>,
      <<"WithChildren", <<>>, <<>>>>,
      <<"H", <<Num(1)>>, <<>>>> }

(* The constructor call the composition runs start from *)
Elements == { <<"Div", <<>>, << <<K_id, Str(TextA)>> >> >> }

(* Keyword sets for replace and merge *)
KwargSets ==
    { << <<K_id, Str(TextB)>> >>,
      << <<K_hidden, PyBool(TRUE)>> >>,
      << <<K_class_, Str(TextB)>> >> }

(* Contents for item-access: a text, a falsy value, the caller's own list, *)
(* and components.  A component given as the whole content of a lazy       *)
(* binding is a non-lazy one.                                              *)
Contents ==
    { Str(TextA), Tuple(<<>>), ListRef(CallerList) }
    \cup { Comp(j) : j \in { n \in Ids : ~insts[n].lazy } }

(* Right operands of the product: numbers, True, and a text *)
Factors == { Num(n) : n \in 0..MaxTimes } \cup { PyBool(TRUE), Str(TextB) }

(* Operands of += *)
Operands == { Str(TextB) }

(* Composition in one context: construction, copies, lazy binding,         *)
(* item-access and +=.                                                     *)
Next ==
    \/ \E c \in MainCtx, k \in Elements : Construct(c, k[1], k[2], k[3])
    \/ \E c \in MainCtx, i \in Ids : Copy(c, i)
    \/ \E c \in MainCtx, i \in Ids : Lazy(c, i)
    \/ \E c \in MainCtx, i \in Ids, content \in Contents : GetItem(c, i, content)
    \/ \E c \in MainCtx, i \in Ids, other \in Operands : IAdd(c, i, other)

Spec == Init /\ [][Next]_vars

(* with blocks in one context, over plain and lazily bound elements; a    *)
(* lazy element is bound to a tuple, a plain one renders any content.      *)
ScopeContents(i) ==
    IF insts[i].lazy THEN { Tuple(<<Str(TextB)>>) } ELSE Contents

NextScope ==
    \/ \E c \in MainCtx : Len(insts) < MaxScoped /\ Construct(c, "Div", <<>>, <<>>)
    \/ \E c \in MainCtx, i \in Ids : Len(insts) < MaxScoped /\ Lazy(c, i)
    \/ \E c \in MainCtx, i \in Ids :
          \E content \in ScopeContents(i) : GetItem(c, i, content)
    \/ \E c \in MainCtx, i \in Ids, f \in Frames : Enter(c, i, f)
    \/ \E c \in MainCtx, exc \in BOOLEAN : Exit(c, exc)

SpecScope == Init /\ [][NextScope]_vars

(* The property bag alone: every class, with replace and merge *)
NextProps ==
    \/ \E c \in MainCtx, k \in Constructions : Construct(c, k[1], k[2], k[3])
    \/ \E c \in MainCtx, i \in Ids, kw \in KwargSets : Replace(c, i, kw)
    \/ \E c \in MainCtx, i \in Ids, kw \in KwargSets : Merge(c, i, kw)
    \/ \E c \in MainCtx, i \in Ids, kw \in KwargSets : Append_(c, i, kw)
    \/ \E c \in MainCtx, i \in Ids, other \in Factors : Mul(c, i, other)
    \/ \E c \in MainCtx, i \in Ids : Copy(c, i)
    \/ \E c \in MainCtx, i \in Ids : Lazy(c, i)

SpecProps == Init /\ [][NextProps]_vars

(* Two contexts composing at once, each with the instances it made, all   *)
(* blocks opened from one frame                                            *)
Own(c) == { i \in Ids : insts[i].owner = c }

NextCtx ==
    \/ \E c \in Ctx : Construct(c, "Div", <<>>, <<>>)
    \/ \E c \in Ctx : \E i \in Own(c) : Enter(c, i, "f")
    \/ \E c \in Ctx, exc \in BOOLEAN : Exit(c, exc)

SpecCtx == Init /\ [][NextCtx]_vars

(* Blocks in one lexical scope: one context, one frame, every block on an  *)
(* element of its own that is not open already, nested up to MaxNest deep  *)
Open(c) == { blocks[c][n].inst : n \in 1..Len(blocks[c]) }

NextNest ==
    \/ \E c \in MainCtx : Construct(c, "Div", <<>>, <<>>)
    \/ \E c \in MainCtx : \E i \in Ids \ Open(c) :
          Len(blocks[c]) < MaxNest /\ EnterBlock(c, i, "f")
    \/ \E c \in MainCtx, exc \in BOOLEAN : Exit(c, exc)

SpecNest == Init /\ [][NextNest]_vars

(* Rendering: elements are bound lazily or given children with +=, and are *)
(* converted to text.  The contents are a text, a SafeString holding       *)
(* markup, a number, a tuple of units, the caller's one-shot iterator, and *)
(* components; an instance is given only components made before it, so no  *)
(* component comes to contain itself.                                      *)
Markup == <<"<", "b", ">">>

RenderContents(i) ==
    { Str(Markup), Safe(Markup), Num(1), Iter(CallerIter) }
    \cup { Comp(j) : j \in { n \in 1..(i - 1) : ~insts[n].lazy } }
    \cup { Tuple(<<Str(Markup), Safe(Markup), Comp(j)>>) : j \in 1..(i - 1) }

RenderOperands(i) == { Str(Markup) } \cup { Comp(j) : j \in 1..(i - 1) }

NextRender ==
    \/ \E c \in MainCtx : Construct(c, "Div", <<>>, <<>>)
    \/ \E c \in MainCtx, i \in Ids : Lazy(c, i)
    \/ \E c \in MainCtx, i \in Ids :
          \E content \in RenderContents(i) : GetItem(c, i, content)
    \/ \E c \in MainCtx, i \in Ids :
          \E other \in RenderOperands(i) : IAdd(c, i, other)
    \/ \E c \in MainCtx, i \in Ids : StrOf(c, i)

SpecRender == Init /\ [][NextRender]_vars

----------------------------------------------------------------------------
(* Properties of the with blocks *)

(* The block a step of context c closes, when it closes one *)
Exits(c) == Len(blocks'[c]) < Len(blocks[c])
Closing(c) == blocks[c][Len(blocks[c])]

(* The step appends item to the list of instance p, once, and changes no   *)
(* other list; or it changes no list at all                                *)
AppendsOnce(p, item) ==
    /\ insts[p].children.k = "list"
    /\ heap' = [heap EXCEPT ![insts[p].children.v[1]] = Append(@, item)]
AppendsNothing == heap' = heap

(* C1: when a with block exits, in whatever way, last_parent of its        *)
(* context holds again the pair it held just before that block's enter     *)
C1_ExitRestoresSlot ==
    [][\A c \in Ctx : Exits(c) => slot'[c] = Closing(c).before]_vars

(* C2, as claimed: a block entered while another component P was the      *)
(* active parent is appended to P's children, once, when it exits in the   *)
(* frame of its own enter (as every with block does), whatever the frame   *)
(* of P's block; a block entered with no parent active is appended to      *)
(* nothing                                                                 *)
C2_AttachedWhenExitInOwnFrame ==
    [][\A c \in Ctx : Exits(c) =>
          LET b == Closing(c)
          IN  /\ b.before.parent \notin {NoParent, b.inst} =>
                    AppendsOnce(b.before.parent, Comp(b.inst))
              /\ b.before.parent = NoParent => AppendsNothing]_vars

(* C2, amended: at exit the component is appended, once, to the parent its *)
(* instance saved at its latest enter exactly when there is such a parent, *)
(* the block's frame is the frame id saved with it (the frame the parent's *)
(* block was entered from) and the parent's children are still a list;     *)
(* in every other case nothing is appended anywhere                        *)
C2_AttachedWhenFrameIsParentsFrame ==
    [][\A c \in Ctx : Exits(c) =>
          LET self == insts[Closing(c).inst]
          IN  IF /\ self.parent # NoParent
                 /\ Closing(c).frame = self.parent_frame_id
                 /\ insts[self.parent].children.k = "list"
              THEN AppendsOnce(self.parent, Comp(Closing(c).inst))
              ELSE AppendsNothing]_vars

(* C2 witness: a block opened in frame g inside a parent's block opened in *)
(* frame f has exited and was appended to nothing                          *)
C2_Witness ==
    /\ last.op = "exit" /\ last.res.ok
    /\ last.arg = <<"g">>
    /\ insts[last.self].parent # NoParent
    /\ insts[last.self].parent # last.self
    /\ insts[last.self].parent_frame_id = "f"
    /\ Attached(heap) = 0

(* C3: with two contexts interleaving blocks on their own instances, each  *)
(* context's last_parent is what a run of that context alone gives, and no *)
(* list holds a component made in the other context                        *)
C3_ContextLocal ==
    /\ \A c \in Ctx : slot[c] = solo.slot[c]
    /\ \A c \in Ctx : slot[c].parent # NoParent => insts[slot[c].parent].owner = c
    /\ \A p \in Ids : \A n \in 1..Len(heap[p]) :
          heap[p][n].k = "comp" => insts[heap[p][n].v[1]].owner = insts[p].owner

(* C3 witness: both contexts have a block open, and a block of one of them *)
(* was appended to its parent while the other context's block was open     *)
C3_Witness ==
    /\ blocks["t1"] # <<>> /\ blocks["t2"] # <<>>
    /\ last.op = "exit" /\ last.ctx = "t1"
    /\ \E p \in Ids : p # last.self /\ heap[p] = <<Comp(last.self)>>

----------------------------------------------------------------------------
(* Properties of item-access, += and the copies *)

(* Instance i is lazy and an item-access on it has succeeded: its children *)
(* are no longer the list it was built with                                *)
Bound(i) == insts[i].lazy /\ insts[i].children # ListRef(i)

(* C4: once an item-access on a lazy instance has succeeded, whatever the  *)
(* content, every later item-access on it ends in the ValueError and its   *)
(* stored children stay the first content                                  *)
C4_BoundOnce ==
    [][\A i \in Ids : Bound(i) =>
          /\ insts'[i].children = insts[i].children
          /\ (last'.op = "getitem" /\ last'.self = i) =>
                last'.res.exc = "ValueError"]_vars

(* C5: an item-access on a non-lazy instance changes no instance, no list  *)
(* and no last_parent, and the receiver converts to the same text after it *)
C5_GetItemLeavesReceiver ==
    [][(last'.op = "getitem" /\ ~insts[last'.self].lazy) =>
          /\ insts' = insts
          /\ heap' = heap
          /\ slot' = slot
          /\ Render(last'.self, insts', heap', 0) = Render(last'.self, insts, heap, 0)]_vars

(* C5 witness: inside an open block, a non-lazy instance that has a child  *)
(* was item-accessed and gave a text                                       *)
C5_Witness ==
    /\ last.op = "getitem" /\ last.res.ok
    /\ ~insts[last.self].lazy
    /\ \E j \in Ids \ {last.self} : heap[last.self] = <<Comp(j)>>
    /\ slot[last.ctx].parent # NoParent

(* The name a keyword key is stored under: a markup element strips the     *)
(* last character of a key that is a Python keyword without it             *)
StoredKey(cls, key) ==
    IF IsHTML(cls) /\ IsKeyword(DropLast(key)) THEN DropLast(key) ELSE key
StoredKeys(cls, K) == { StoredKey(cls, K[n][1]) : n \in 1..Len(K) }

(* props is old overlaid with K: every key of K with K's value, every      *)
(* other key of old with its old value, and no further key                 *)
Overlaid(props, old, K, cls) ==
    /\ DictKeys(props) = DictKeys(old) \cup StoredKeys(cls, K)
    /\ \A n \in 1..Len(K) : DictGet(props, StoredKey(cls, K[n][1])) = K[n][2]
    /\ \A key \in DictKeys(old) \ StoredKeys(cls, K) :
          DictGet(props, key) = DictGet(old, key)

(* C6: replace returns a new instance whose props are the receiver's       *)
(* overlaid with the keywords, and leaves the receiver as it was           *)
C6_ReplaceOverlays ==
    [][last'.op = "replace" =>
          /\ last'.res.ok
          /\ Len(insts') = Len(insts) + 1
          /\ insts'[last'.self] = insts[last'.self]
          /\ Overlaid(insts'[Len(insts')].props, insts[last'.self].props,
                      last'.arg[1], insts[last'.self].cls)]_vars

(* C7: merge ends in the KeyError exactly when a key of the keywords is in *)
(* the receiver's props, the error names each such key, and no instance is *)
(* made; otherwise it returns a new instance whose props are the           *)
(* receiver's overlaid with the keywords                                   *)
C7_MergeConflictIff ==
    [][last'.op = "merge" =>
          LET C == insts[last'.self]
              K == last'.arg[1]
              over == DictKeys(C.props) \cap StoredKeys(C.cls, K)
          IN  /\ insts'[last'.self] = C
              /\ IF over # {}
                 THEN /\ last'.res.exc = "KeyError"
                      /\ { last'.res.info[n] : n \in 1..Len(last'.res.info) } = over
                      /\ insts' = insts
                 ELSE /\ last'.res.ok
                      /\ Len(insts') = Len(insts) + 1
                      /\ Overlaid(insts'[Len(insts')].props, C.props, K, C.cls)]_vars

C9_IAddSucceeds ==
    last.op = "iadd" =>
        /\ last.res.ok
        /\ LET items == Items(insts[last.self].children, heap)
           IN  items # <<>> /\ items[Len(items)] = last.arg[1]

(* C10: a += or an item-access on an instance derived from another leaves  *)
(* that other instance's children, and the text it converts to, as they    *)
(* were                                                                    *)
C10_DerivedLeavesOrigin ==
    [][(last'.op \in {"iadd", "getitem"} /\ insts[last'.self].origin # NoParent) =>
          LET A == insts[last'.self].origin
          IN  /\ insts'[A] = insts[A]
              /\ Items(insts'[A].children, heap') = Items(insts[A].children, heap)
              /\ Render(A, insts', heap', 0) = Render(A, insts, heap, 0)]_vars

----------------------------------------------------------------------------
(* Properties of rendering *)

(* C11: a conversion to text changes no instance and no children, and a    *)
(* second conversion right after it gives the text the first one gave      *)
C11_StrTwiceSame ==
    [][last'.op = "str" =>
          /\ insts' = insts
          /\ heap' = heap
          /\ Render(last'.self, insts', heap', RecursionLimit) = last'.res]_vars

(* The child units an instance was given: a text, a SafeString or a        *)
(* component bound as the whole content is one unit, a list or a tuple     *)
(* gives its items                                                         *)
GivenUnits(children, hp) ==
    IF children.k \in {"str", "safe", "comp"} THEN <<children>>
    ELSE Items(children, hp)

(* What a unit contributes: a plain text escaped once, a SafeString as it  *)
(* is, a component its own conversion to text                              *)
UnitText(ch, ins, hp) ==
    IF ch.k = "str" THEN EscapeText(ch.v)
    ELSE IF ch.k = "safe" THEN ch.v
    ELSE Render(ch.v[1], ins, hp, RecursionLimit).val

Assembled(i, ins, hp) ==
    LET units == GivenUnits(ins[i].children, hp)
    IN  RenderOwn(ins[i], Concat([n \in 1..Len(units) |-> UnitText(units[n], ins, hp)]))

(* The children of instance i are texts, SafeStrings and components that   *)
(* convert to text                                                         *)
PlainUnits(i, ins, hp) ==
    /\ ins[i].children.k \in {"str", "safe", "comp", "list", "tuple"}
    /\ LET units == GivenUnits(ins[i].children, hp)
       IN  \A n \in 1..Len(units) :
              \/ units[n].k \in {"str", "safe"}
              \/ /\ units[n].k = "comp"
                 /\ Render(units[n].v[1], ins, hp, RecursionLimit).ok

(* C12: the text of an instance is its own markup around the units given   *)
(* to it, in order: each plain text escaped once, each SafeString          *)
(* unchanged, each component's own text not escaped again                  *)
C12_UnitsAssembled ==
    [][(last'.op = "str" /\ PlainUnits(last'.self, insts, heap)) =>
          last'.res = Assembled(last'.self, insts, heap)]_vars

----------------------------------------------------------------------------
(* Properties of the attributes of a markup element *)

(* The attribute name a keyword name stands for: the name without its last *)
(* character when that character is an underscore and the rest is a        *)
(* reserved word, else the name itself                                     *)
EndsWithUnderscore(key) == key # <<>> /\ key[Len(key)] = "_"
AttributeName(key) ==
    IF EndsWithUnderscore(key) /\ IsKeyword(DropLast(key)) THEN DropLast(key) ELSE key

(* The element a successful constructor call has just made *)
Made == insts[last.res.val.v[1]]
MadeElement == last.op = "construct" /\ last.res.ok /\ IsHTML(last.arg[1])

(* C13: every keyword given with a text value is an attribute under the    *)
(* name it stands for, and under no other name                             *)
C13_UnderscoreKeywordOnly ==
    MadeElement =>
        \A n \in 1..Len(last.arg[3]) :
            LET key == last.arg[3][n][1]
                val == last.arg[3][n][2]
            IN  IsStr(val) =>
                   /\ DictHas(Made.keyval_args, AttributeName(key))
                   /\ DictGet(Made.keyval_args, AttributeName(key)) = val
                   /\ DictKeys(Made.keyval_args) \subseteq
                         { AttributeName(last.arg[3][m][1]) : m \in 1..Len(last.arg[3]) }

(* C14: a keyword given with a boolean is never a name="value" attribute;  *)
(* with True it is a bare attribute name, with False it is no attribute    *)
C14_BooleanNeverValue ==
    MadeElement =>
        \A n \in 1..Len(last.arg[3]) :
            LET key == last.arg[3][n][1]
                val == last.arg[3][n][2]
                bare == { Made.bool_args[m] : m \in 1..Len(Made.bool_args) }
            IN  val.k = "bool" =>
                   /\ {key, DropLast(key)} \cap DictKeys(Made.keyval_args) = {}
                   /\ val.v[1] <=> ({key, AttributeName(key)} \cap bare # {})

----------------------------------------------------------------------------
(* Properties of append, of the product and of the serialized attributes   *)

(* props is old with K appended: a key of K that old holds has old value + *)
(* K's value, a key of K that old lacks has K's value, every other key of  *)
(* old its old value, and there is no further key                          *)
Appended(props, old, K, cls) ==
    /\ DictKeys(props) = DictKeys(old) \cup StoredKeys(cls, K)
    /\ \A n \in 1..Len(K) :
          LET key == StoredKey(cls, K[n][1])
          IN  DictGet(props, key) =
                 IF DictHas(old, key) THEN Plus(DictGet(old, key), K[n][2]).val
                 ELSE K[n][2]
    /\ \A key \in DictKeys(old) \ StoredKeys(cls, K) :
          DictGet(props, key) = DictGet(old, key)

(* C15: append returns a new instance whose props are the receiver's with  *)
(* the keywords appended, old value on the left, and leaves the receiver   *)
(* as it was                                                               *)
C15_AppendConcatenates ==
    [][last'.op = "append" =>
          /\ last'.res.ok
          /\ Len(insts') = Len(insts) + 1
          /\ insts'[last'.self] = insts[last'.self]
          /\ Appended(insts'[Len(insts')].props, insts[last'.self].props,
                      last'.arg[1], insts[last'.self].cls)]_vars

(* C16: the product with an int n is a new component without arguments     *)
(* whose text is the receiver's text n times over (no text for 0); the     *)
(* receiver and every other instance stay as they were; with an operand    *)
(* that is no int the result is NotImplemented and no component is made    *)
C16_ProductRepeats ==
    [][last'.op = "mul" =>
          LET n == last'.arg[1]
              new == Len(insts) + 1
              text == Render(last'.self, insts, heap, RecursionLimit)
              product == Render(new, insts', heap', RecursionLimit)
          IN  IF n.k \in {"int", "bool"}
              THEN /\ last'.res = Ok(Comp(new))
                   /\ Len(insts') = new
                   /\ \A j \in Ids : insts'[j] = insts[j]
                   /\ heap' = heap
                   /\ insts'[new].props = <<>>
                   /\ Argnames(insts'[new].cls) = <<>>
                   /\ IF text.ok
                      THEN product = Ok(Repeat(text.val, IF n.k = "int" THEN n.v[1] ELSE 1))
                      ELSE product = text
              ELSE /\ last'.res = Ok(NotImplementedVal)
                   /\ insts' = insts /\ heap' = heap]_vars

(* C16 witness: a product by 2 was made of a self-closing element, and its *)
(* text is the element's text twice                                        *)
C16_Witness ==
    /\ last.op = "mul" /\ last.res.ok
    /\ last.arg = <<Num(2)>>
    /\ insts[last.self].cls = "Hr"
    /\ Render(Len(insts), insts, heap, RecursionLimit)
          = Ok(SelfClosingStr(insts[last.self]) \o SelfClosingStr(insts[last.self]))

(* C17: no component contains itself here, so every conversion to text,    *)
(* and every item-access that renders, comes to an end                     *)
C17_RenderTerminates ==
    last.op \in {"str", "getitem"} => last.res.exc # "Diverges"

(* C19: when a lazy instance that has no children yet is bound by          *)
(* item-access to a text, a SafeString, a component, a number or a         *)
(* sequence, it converts to the text the item-access of a non-lazy         *)
(* instance with the same props gives for that content                     *)
C19_LazyAgreesWithDirect ==
    [][LET i == last'.self
           content == last'.arg[1]
       IN  (/\ last'.op = "getitem" /\ last'.res.ok
            /\ insts[i].lazy
            /\ insts[i].children = ListRef(i) /\ heap[i] = <<>>
            /\ content.k # "iter") =>
               Render(i, insts', heap', RecursionLimit)
                  = GetItemRender(i, content, insts, heap)]_vars

----------------------------------------------------------------------------
(* Properties of nested blocks in one lexical scope *)

(* C18: a block that exits is appended to the children of the block that   *)
(* encloses it most closely, at the end, and to nothing else; a block that *)
(* no block encloses is appended to nothing.  So blocks A, B, C closed     *)
(* C, B, A leave A with [B] and B with [C], and blocks B1, B2 closed one   *)
(* after the other inside A leave A with [B1, B2].                         *)
C18_AttachedToInnermost ==
    [][\A c \in Ctx : Exits(c) =>
          IF Len(blocks[c]) > 1
          THEN AppendsOnce(blocks[c][Len(blocks[c]) - 1].inst, Comp(Closing(c).inst))
          ELSE AppendsNothing]_vars

(* C18 witness: three blocks A, B, C were nested and have all exited; A    *)
(* holds B alone and B holds C alone                                       *)
C18_Witness ==
    /\ last.op = "exit" /\ blocks[last.ctx] = <<>>
    /\ \E A, B, C \in Ids :
          /\ Cardinality({A, B, C}) = 3
          /\ last.self = A
          /\ heap[A] = <<Comp(B)>> /\ heap[B] = <<Comp(C)>> /\ heap[C] = <<>>

----------------------------------------------------------------------------
(* Properties of the serialized attributes under the copy-style operators  *)

BareNames(self) == { self.bool_args[n] : n \in 1..Len(self.bool_args) }

(* C20: a copy of a markup element, and its lazy accessor, convert to the  *)
(* text the element converts to; and the result of copy, replace, append,  *)
(* merge or lazy has every attribute of the element that the keywords of   *)
(* the call do not name, under the same name and with the same value       *)
C20_AttributesPreserved ==
    [][(/\ last'.op \in {"copy", "lazy", "replace", "append", "merge"}
        /\ last'.res.ok
        /\ IsHTML(insts[last'.self].cls)) =>
          LET E == insts[last'.self]
              R == insts'[Len(insts')]
              K == IF last'.op \in {"copy", "lazy"} THEN <<>> ELSE last'.arg[1]
              named == StoredKeys(E.cls, K) \cup { K[n][1] : n \in 1..Len(K) }
          IN  /\ BareNames(E) \ named \subseteq BareNames(R)
              /\ \A key \in DictKeys(E.keyval_args) \ named :
                    /\ DictHas(R.keyval_args, key)
                    /\ DictGet(R.keyval_args, key) = DictGet(E.keyval_args, key)
              /\ last'.op \in {"copy", "lazy"} =>
                    Render(Len(insts'), insts', heap', RecursionLimit)
                       = Render(last'.self, insts, heap, RecursionLimit)]_vars

====
